---- MODULE Spec2Model ----
(***************************************************************************)
(* OncoSTR: structure segmentation of brain MRI volumes.                   *)
(*                                                                         *)
(* Strings that the code takes apart or matches (paths, file names, glob   *)
(* patterns) are sequences of tokens, so that "+" is \o and a suffix match *)
(* is a match on the last tokens.  A volume is a sequence of voxel values. *)
(* Python's None is the empty sequence (no modelled path or list is empty).*)
(***************************************************************************)
EXTENDS Integers, Sequences, FiniteSets, TLC

\* ------------------------------------------------------------------ bounds
\* voxels of the volumes the pure-function specifications enumerate
MaxVox == 3
\* largest intensity of an enumerated cut volume
MaxIntensity == 3
\* longest list of inner compartments enumerated
MaxInner == 2

None == <<>>

\* ------------------------------------------------------- generic helpers
Range(s) == {s[i] : i \in DOMAIN s}

Abs(x) == IF x < 0 THEN 0 - x ELSE x

SetMin(S) == CHOOSE x \in S : \A y \in S : x <= y

SetMax(S) == CHOOSE x \in S : \A y \in S : y <= x

RECURSIVE SortedSeq(_)
SortedSeq(S) == IF S = {} THEN <<>> ELSE <<SetMin(S)>> \o SortedSeq(S \ {SetMin(S)})

\* numpy.unique: the sorted distinct values of an array
np_unique(arr) == SortedSeq(Range(arr))

\* numpy.isclose(a, b) with the defaults rtol = 1e-5, atol = 1e-8:
\* |a - b| <= atol + rtol * |b|, scaled by 1e8 to stay in the integers
np_isclose(a, b) == Abs(a - b) * 100000000 <= 1 + 1000 * Abs(b)

\* list.remove(x): drops the first element equal to x, ValueError when none is
list_remove(list, x) ==
    IF \E i \in DOMAIN list : list[i] = x
    THEN LET k == SetMin({i \in DOMAIN list : list[i] = x})
         IN  [raised |-> FALSE,
              list |-> SubSeq(list, 1, k - 1) \o SubSeq(list, k + 1, Len(list))]
    ELSE [raised |-> TRUE, list |-> list]

\* mask[np.isclose(mask, value)] = to
AssignClose(mask, value, to) ==
    [v \in DOMAIN mask |-> IF np_isclose(mask[v], value) THEN to ELSE mask[v]]

\* --------------------------------------------------------- image2mask
\* for outer in unique: mask[np.isclose(mask, outer)] = 0.0
RECURSIVE ZeroOuter(_, _)
ZeroOuter(mask, unique) ==
    IF unique = <<>> THEN mask
    ELSE ZeroOuter(AssignClose(mask, Head(unique), 0), Tail(unique))

\* InnerLoop without unique.remove(comp): an absent inner compartment is passed over
RECURSIVE InnerLoopTolerant(_, _, _)
InnerLoopTolerant(mask, unique, inner) ==
    IF inner = <<>> THEN [raised |-> FALSE, mask |-> mask]
    ELSE InnerLoopTolerant(AssignClose(mask, Head(inner), 1), unique, Tail(inner))

\* for comp in inner_compartments: mask[np.isclose(mask, comp)] = 1.0; unique.remove(comp)
RECURSIVE InnerLoop(_, _, _)
InnerLoop(mask, unique, inner) ==
    IF inner = <<>> THEN [raised |-> FALSE, mask |-> mask]
    ELSE LET m1 == AssignClose(mask, Head(inner), 1)
             r  == list_remove(unique, Head(inner))
         IN  IF r.raised THEN [raised |-> TRUE, mask |-> <<>>]
             ELSE InnerLoop(m1, r.list, Tail(inner))

\* image2mask(image, compartment, inner_compartments) on the loaded array `label`
image2mask(label, compartment, inner_compartments) ==
    LET r == list_remove(np_unique(label), compartment)
    IN  IF r.raised THEN [raised |-> TRUE, mask |-> <<>>]
        ELSE LET m0 == ZeroOuter(label, r.list)
                 m1 == AssignClose(m0, compartment, 1)
             IN  InnerLoop(m1, r.list, inner_compartments)

\* --------------------------------------------------- cut_area_from_image
\* fslmaths(area_mask).mul(-1).add(1) when inverse, then fslmaths(input).mul(mask)
cut_area_from_image(input_image, area_mask, inverse) ==
    LET m == IF inverse THEN [v \in DOMAIN area_mask |-> area_mask[v] * (0 - 1) + 1]
             ELSE area_mask
    IN  [v \in DOMAIN input_image |-> input_image[v] * m[v]]

\* ------------------------------------------------- intensity normalisation
\* A float is n/d with d > 0; d = 0 is a non-finite value: 0/0 is NaN, n/0 with
\* n < 0 is -inf and with n > 0 is +inf (numpy divides without raising).
Num(n, d) == [n |-> n, d |-> d]

IsNaN(x) == x.d = 0 /\ x.n = 0

\* x < 0 as numpy evaluates it (False for NaN)
NumNeg(x) == x.n < 0

\* x + 1
NumInc(x) == IF x.d = 0 THEN x ELSE Num(x.n + x.d, x.d)

\* a / b on integers, as numpy float division
NumDiv(a, b) ==
    IF b # 0 THEN Num(IF b < 0 THEN 0 - a ELSE a, Abs(b))
    ELSE Num(IF a < 0 THEN 0 - 1 ELSE IF a > 0 THEN 1 ELSE 0, 0)

\* lines 293-297 of tumor_entity_weighted_approach on a cut array:
\*   array[array == 0] = -1
\*   array = (array - array[array > 0].min()) / (array.max() - array[array > 0].min())
\*   array[array < 0] = -1
\*   array = array + 1
\* min() of an empty selection raises ValueError
normalise(array) ==
    LET a1  == [v \in DOMAIN array |-> IF array[v] = 0 THEN 0 - 1 ELSE array[v]]
        pos == {a1[v] : v \in {w \in DOMAIN a1 : a1[w] > 0}}
    IN  IF pos = {} THEN [raised |-> TRUE, array |-> <<>>]
        ELSE LET fgMin == SetMin(pos)
                 vMax  == SetMax(Range(a1))
                 a2 == [v \in DOMAIN a1 |-> NumDiv(a1[v] - fgMin, vMax - fgMin)]
                 a3 == [v \in DOMAIN a2 |-> IF NumNeg(a2[v]) THEN Num(0 - 1, 1) ELSE a2[v]]
             IN  [raised |-> FALSE, array |-> [v \in DOMAIN a3 |-> NumInc(a3[v])]]

\* ------------------------------------------------------------------ paths
\* os.sep
SEP == "/"

\* STRUCTURE_SEGMENTATION_PATH = "structure_segmentation" + os.path.sep
STRUCTURE_SEGMENTATION_PATH == <<"structure_segmentation", SEP>>

\* the tokens pathlib takes for a suffix (".nii", ".gz")
DotSuffixes == {".nii", ".gz"}

NII_GZ == <<".nii", ".gz">>

\* os.getcwd()
Cwd == <<SEP, "cwd">>

Last(s) == s[Len(s)]

Front(s) == SubSeq(s, 1, Len(s) - 1)

\* s.endswith(suffix)
EndsWith(s, suffix) ==
    /\ Len(suffix) <= Len(s)
    /\ SubSeq(s, Len(s) - Len(suffix) + 1, Len(s)) = suffix

\* os.path.basename(s): what follows the last separator
basename(s) ==
    LET seps == {i \in DOMAIN s : s[i] = SEP}
    IN  IF seps = {} THEN s ELSE SubSeq(s, SetMax(seps) + 1, Len(s))

\* pathlib.Path(name).stem: the final component without its last suffix
stem(name) ==
    LET f == basename(name)
    IN  IF Len(f) > 1 /\ Last(f) \in DotSuffixes THEN Front(f) ELSE f

\* split_path(s): (file, path), path being s without the file and one more character
split_path(s) ==
    LET f == basename(s)
    IN  [file |-> f,
         path |-> IF Len(s) - Len(f) - 1 > 0 THEN SubSeq(s, 1, Len(s) - Len(f) - 1) ELSE <<>>]

\* get_path_file_extension(input_file): (path, file, file without extension)
get_path_file_extension(input_file) ==
    LET sp == split_path(input_file)
    IN  [path |-> sp.path, file |-> sp.file, file_wo_extension |-> stem(stem(input_file))]

\* the file system's reading of a path: repeated separators count once
RECURSIVE NormPath(_)
NormPath(p) ==
    IF Len(p) < 2 THEN p
    ELSE IF p[1] = SEP /\ p[2] = SEP THEN NormPath(Tail(p))
         ELSE <<p[1]>> \o NormPath(Tail(p))

\* the directories os.makedirs(directory) makes: the directory and its parents
DirChain(directory) ==
    LET d == NormPath(directory)
    IN  {SubSeq(d, 1, i) : i \in {j \in DOMAIN d : d[j] = SEP /\ j > 1}}

\* str(i)
str(i) == ToString(i)

\* ------------------------------------------------------ the data on disk
\* the input volumes of the tutorial's data directory, on a grid of seven voxels
T1Path == <<"data", SEP, "t1", ".nii", ".gz">>

T2Path == <<"data", SEP, "t2", ".nii", ".gz">>

\* a tumor segmentation holding every BraTS code (1, 2, 4)
SegPath == <<"data", SEP, "seg", ".nii", ".gz">>

\* a tumor segmentation without code 4
SegNoActivePath == <<"data", SEP, "seg_noactive", ".nii", ".gz">>

Disk ==
    (T1Path :> <<3, 5, 2, 4, 6, 1, 7>>) @@
    (T2Path :> <<1, 2, 6, 3, 3, 0, 5>>) @@
    (SegPath :> <<0, 1, 1, 2, 2, 4, 4>>) @@
    (SegNoActivePath :> <<0, 1, 1, 2, 2, 2, 0>>)

\* nib.load(path).get_fdata()
image2array(image_dir) == Disk[image_dir]

\* ----------------------------------------------------- configuration values
\* self.modes
modes == <<"tumor_agnostic", "bias_corrected", "tumor_entity_weighted">>

\* A str object: its value, and whether it is the very object held in self.modes
\* (a literal of the source is interned; a string built at run time is not).
Str(val, interned) == [val |-> val, interned |-> interned]

\* a is b, for a mode a and an element b of self.modes
Is(a, b) == a.val = b /\ a.interned

DefaultBrainClasses == <<<<"cerebrospinal_fluid">>, <<"gray_matter">>, <<"white_matter">>>>

DefaultTumorMapping ==
    << [key |-> <<"edema">>, value |-> 2],
       [key |-> <<"active">>, value |-> 4],
       [key |-> <<"necrotic">>, value |-> 1] >>

\* the values the caller's configuration steps are drawn from
WorkDirChoices == {<<"tumor_agnostic">>}

\* the tutorial constructs the object without a work directory
CtorChoices == {None}

InputChoices ==
    { [input_files_dir |-> <<T1Path>>, tumor_seg_dir |-> None],
      [input_files_dir |-> <<T1Path>>, tumor_seg_dir |-> SegPath],
      [input_files_dir |-> <<T1Path, T2Path>>, tumor_seg_dir |-> SegPath],
      [input_files_dir |-> <<T1Path>>, tumor_seg_dir |-> SegNoActivePath] }

ModeChoices ==
    {Str(m, TRUE) : m \in Range(modes)} \cup
    {Str("bias_corrected", FALSE), Str("watershed", TRUE)}

BrainClassChoices == {DefaultBrainClasses, <<<<"fluid">>, <<"tissue">>>>}

TumorMappingChoices ==
    {DefaultTumorMapping,
     << [key |-> <<"core">>, value |-> 1], [key |-> <<"edema">>, value |-> 2] >>}

\* the keys in the order of their codes instead of insertion order
keys_by_code(mapping) ==
    LET sorted == SortedSeq({mapping[i].value : i \in DOMAIN mapping})
    IN  [i \in DOMAIN sorted |->
            (CHOOSE e \in Range(mapping) : e.value = sorted[i]).key]

\* list(mapping.keys()) and list(mapping.values()), in insertion order
keys(mapping) == [i \in DOMAIN mapping |-> mapping[i].key]

values(mapping) == [i \in DOMAIN mapping |-> mapping[i].value]

\* ------------------------------------------------------------------ state
VARIABLES
    work_dir, out_dir, input_files_dir, tumor_seg_dir, affine,
    remove_interim_files, mode, brain_handling_classes, tumor_class_mapping,
    dirs, files,
    pc, ph, err, runs, tumor_mask, tumor_masks, li, lj, files_to_remove, trace, fresh,
    fnArgs, fnResult

objVars == <<work_dir, out_dir, input_files_dir, tumor_seg_dir, affine,
             remove_interim_files, mode, brain_handling_classes, tumor_class_mapping>>

fsVars == <<dirs, files>>

runVars == <<pc, ph, err, runs, tumor_mask, tumor_masks, li, lj, files_to_remove, trace, fresh>>

fnVars == <<fnArgs, fnResult>>

vars == <<objVars, fsVars, runVars, fnVars>>

\* runs of one object the model follows
MaxRuns == 2

\* __init__(work_dir)
init(arg) ==
    LET w0 == IF arg = None THEN Cwd \o <<SEP>> ELSE arg
        w1 == IF ~EndsWith(w0, <<SEP>>) THEN w0 \o <<SEP>> ELSE w0
    IN  /\ work_dir = w1
        /\ out_dir = w1 \o STRUCTURE_SEGMENTATION_PATH
        /\ input_files_dir = None
        /\ tumor_seg_dir = None
        /\ affine = None
        /\ remove_interim_files = TRUE
        /\ mode = Str("bias_corrected", TRUE)
        /\ brain_handling_classes = DefaultBrainClasses
        /\ tumor_class_mapping = DefaultTumorMapping

RunInit ==
    /\ pc = "idle" /\ ph = 0 /\ err = "none" /\ runs = 0
    /\ tumor_mask = <<>> /\ tumor_masks = <<>> /\ li = 0 /\ lj = 0
    /\ files_to_remove = <<>> /\ trace = <<>> /\ fresh = TRUE

FsInit == dirs = {} /\ files = <<>>

FnIdle == fnArgs = <<>> /\ fnResult = <<>>

Init == (\E arg \in CtorChoices : init(arg)) /\ FsInit /\ RunInit /\ FnIdle

\* ------------------------------------------------------------ file system
Exists(fs, path) == NormPath(path) \in DOMAIN fs

\* nib.save(image, path) and every other write of one file
WriteFile(fs, path, content) ==
    [p \in DOMAIN fs \cup {NormPath(path)} |-> IF p = NormPath(path) THEN content ELSE fs[p]]

\* os.remove(path)
RemoveFile(fs, path) == [p \in DOMAIN fs \ {NormPath(path)} |-> fs[p]]

\* os.rename(src, dst): dst is replaced when it exists
os_rename(fs, src, dst) ==
    [p \in (DOMAIN fs \ {NormPath(src)}) \cup {NormPath(dst)} |->
        IF p = NormPath(dst) THEN fs[NormPath(src)] ELSE fs[p]]

\* what a file holds: a volume, or an output of the external segmentation
\* (`run` tells the runs of the object apart: the run that wrote the file)
Volume(data) == [kind |-> "volume", of |-> <<>>, idx |-> 0 - 1, run |-> runs, data |-> data]

FastOutput(kind, base, idx) ==
    [kind |-> kind, of |-> basename(NormPath(base)), idx |-> idx, run |-> runs, data |-> <<>>]

\* mkdir_if_not_exist(directory)
mkdir_if_not_exist(ds, directory) ==
    IF NormPath(directory) \in ds THEN ds ELSE ds \cup DirChain(directory)

\* The files FSL's fast leaves for an output basename and n_classes classes:
\* <basename>_pve_<i> for each class i, and <basename>_seg, _mixeltype, _pveseg.
\* "x_pve_" is the two tokens "x", "_pve_"; "_mixeltype" is "_", "mixeltype".
PveFile(base, i) == base \o <<"_pve_", str(i)>> \o NII_GZ

AuxParts == {<<"_seg">>, <<"_", "mixeltype">>, <<"_pveseg">>}

\* single_segmentation(basename, files_list, n_classes): fsl.wrappers.fast
single_segmentation(fs, base, n_classes) ==
    LET pve == {NormPath(PveFile(base, i)) : i \in 0..(n_classes - 1)}
        aux == {NormPath(base \o q \o NII_GZ) : q \in AuxParts}
    IN  [p \in DOMAIN fs \cup pve \cup aux |->
            IF p \in pve
            THEN FastOutput("pve", base,
                            CHOOSE i \in 0..(n_classes - 1) : p = NormPath(PveFile(base, i)))
            ELSE IF p \in aux THEN FastOutput("aux", base, 0 - 1)
            ELSE fs[p]]

\* glob.glob(os.path.join(directory, '*' + suffix)): the files of the directory
\* whose name ends with the suffix, in the order the listing gives them (here
\* the order of SortedPaths)
GlobSet(fs, directory, suffix) ==
    LET d == NormPath(directory)
    IN  {p \in DOMAIN fs :
            /\ Len(p) > Len(d)
            /\ SubSeq(p, 1, Len(d)) = d
            /\ SEP \notin Range(SubSeq(p, Len(d) + 1, Len(p)))
            /\ EndsWith(p, suffix)}

RECURSIVE SetToSeq(_)
SetToSeq(S) == IF S = {} THEN <<>> ELSE LET x == CHOOSE y \in S : TRUE IN <<x>> \o SetToSeq(S \ {x})

glob(fs, directory, suffix) == SetToSeq(GlobSet(fs, directory, suffix))

\* CleanupPatterns without '*_seg.nii.gz'
CleanupPatternsNoSeg ==
    << <<"Tumor">> \o NII_GZ, <<"mixeltype">> \o NII_GZ, <<"_pveseg">> \o NII_GZ >>

\* the patterns of run()'s cleanup: '*Tumor.nii.gz', '*mixeltype.nii.gz',
\* '*_pveseg.nii.gz', '*_seg.nii.gz'
CleanupPatterns ==
    << <<"Tumor">> \o NII_GZ, <<"mixeltype">> \o NII_GZ, <<"_pveseg">> \o NII_GZ, <<"_seg">> \o NII_GZ >>

RECURSIVE GlobAll(_, _, _)
GlobAll(fs, directory, patterns) ==
    IF patterns = <<>> THEN <<>>
    ELSE glob(fs, directory, Head(patterns)) \o GlobAll(fs, directory, Tail(patterns))

\* --------------------------------------------------------- history of a run
Event(op, file, to, m, k) == [op |-> op, file |-> NormPath(file), to |-> NormPath(to), m |-> m, k |-> k]

\* one "read" event per input file of a segmentation call, then the call
FastEvents(files_list, base) ==
    [i \in DOMAIN files_list |-> Event("read", files_list[i], <<>>, i, 0)]
    \o <<Event("fast", base, <<>>, 0, 0)>>

\* ------------------------------------------------------------------ run()
\* the caller holds control: run() is not on the stack
Resting == pc = "idle"

\* run_phases with the cleanup moved before the last call of the strategy
run_phases_cleanup_early(m) ==
    (IF m.val = "tumor_agnostic" THEN <<"cleanup", "agnostic">> ELSE <<>>)
    \o (IF m.val \in {"bias_corrected", "tumor_entity_weighted"}
        THEN <<"split", "brain", "cleanup">>
             \o (IF m.val = "bias_corrected" THEN <<"bias">> ELSE <<>>)
             \o (IF m.val = "tumor_entity_weighted" THEN <<"tew">> ELSE <<>>)
        ELSE <<>>)

\* the calls run() makes after mkdir_if_not_exist, in order (lines 316-331)
run_phases(m) ==
    (IF m.val = "tumor_agnostic" THEN <<"agnostic">> ELSE <<>>)
    \o (IF m.val \in {"bias_corrected", "tumor_entity_weighted"}
        THEN <<"split", "brain">>
             \o (IF m.val = "bias_corrected" THEN <<"bias">> ELSE <<>>)
             \o (IF m.val = "tumor_entity_weighted" THEN <<"tew">> ELSE <<>>)
        ELSE <<>>)
    \o <<"cleanup">>

FirstStep(phase) ==
    CASE phase = "agnostic" -> "agnostic_fast"
      [] phase = "split"    -> "split_mask"
      [] phase = "brain"    -> "brain_fast"
      [] phase = "bias"     -> "bias_fast"
      [] phase = "tew"      -> "tew_masks"
      [] phase = "cleanup"  -> "cleanup_glob"

\* the frame's locals are dropped when run() returns or raises
DropLocals ==
    /\ tumor_mask' = <<>> /\ tumor_masks' = <<>> /\ files_to_remove' = <<>>
    /\ li' = 0 /\ lj' = 0 /\ ph' = 0

Raise(e) == pc' = "raised" /\ err' = e /\ DropLocals

Return == pc' = "done" /\ err' = "none" /\ DropLocals

\* control passes to the n-th call of run(), or run() returns
Goto(n) ==
    IF n > Len(run_phases(mode)) THEN Return
    ELSE /\ pc' = FirstStep(run_phases(mode)[n]) /\ ph' = n /\ err' = "none"
         /\ li' = 0 /\ lj' = 0
         /\ UNCHANGED <<tumor_mask, tumor_masks, files_to_remove>>

\* stays in the phase, at step `step` with loop counters i and j
Stay(step, i, j) == pc' = step /\ li' = i /\ lj' = j /\ UNCHANGED <<ph, err>>

Log(events) == trace' = trace \o events

\* lines 308-312: the two checks of run()
RunValidate ==
    /\ Resting /\ runs < MaxRuns
    /\ runs' = runs + 1
    /\ trace' = <<>>
    /\ fresh' = (DOMAIN files = {})
    /\ IF mode.val \notin Range(modes)
       THEN Raise("ValueError")
       ELSE IF (Is(mode, modes[2]) \/ Is(mode, modes[3])) /\ tumor_seg_dir = None
            THEN Raise("ValueError")
            ELSE /\ pc' = "mkdir" /\ err' = "none" /\ DropLocals
    /\ UNCHANGED <<objVars, fsVars, fnVars>>

\* line 314
RunMkdir ==
    /\ pc = "mkdir"
    /\ dirs' = mkdir_if_not_exist(dirs, out_dir)
    /\ Goto(1)
    /\ UNCHANGED <<objVars, files, runs, trace, fresh, fnVars>>

\* one os.rename of a renaming loop over `names`, from basename `base`
RenameStep(step, base, names) ==
    LET src == PveFile(base, li)
        dst == out_dir \o names[li + 1] \o NII_GZ
    IN  IF ~Exists(files, src)
        THEN Raise("FileNotFoundError") /\ UNCHANGED <<files, trace>>
        ELSE /\ files' = os_rename(files, src, dst)
             /\ Log(<<Event("rename", src, dst, li, 0)>>)
             /\ IF li + 1 < Len(names)
                THEN Stay(step, li + 1, 0) /\ UNCHANGED <<tumor_mask, tumor_masks, files_to_remove>>
                ELSE Goto(ph + 1)

\* tumor_agnostic_mode, line 256
TumorAgnosticFast ==
    /\ pc = "agnostic_fast"
    /\ IF input_files_dir = None
       THEN Raise("TypeError") /\ UNCHANGED <<files, trace>>
       ELSE /\ files' = single_segmentation(files, out_dir, Len(brain_handling_classes))
            /\ Log(FastEvents(input_files_dir, out_dir))
            /\ Stay("agnostic_rename", 0, 0)
            /\ UNCHANGED <<tumor_mask, tumor_masks, files_to_remove>>
    /\ UNCHANGED <<objVars, dirs, runs, fresh, fnVars>>

\* tumor_agnostic_mode, lines 257-258
TumorAgnosticRename ==
    /\ pc = "agnostic_rename"
    /\ RenameStep("agnostic_rename", out_dir, brain_handling_classes)
    /\ UNCHANGED <<objVars, dirs, runs, fresh, fnVars>>

\* split_tumor_from_brain, lines 218-221
SplitMask ==
    /\ pc = "split_mask"
    /\ IF tumor_seg_dir = None
       THEN Raise("TypeError") /\ UNCHANGED affine
       ELSE LET seg_id == values(tumor_class_mapping)
                r == image2mask(image2array(tumor_seg_dir), seg_id[1], Tail(seg_id))
            IN  IF r.raised THEN Raise("ValueError") /\ UNCHANGED affine
                ELSE IF input_files_dir = None THEN Raise("TypeError") /\ UNCHANGED affine
                ELSE /\ affine' = input_files_dir[1]
                     /\ tumor_mask' = r.mask
                     /\ Stay("split_cut", 1, 1)
                     /\ UNCHANGED <<tumor_masks, files_to_remove>>
    /\ UNCHANGED <<work_dir, out_dir, input_files_dir, tumor_seg_dir, remove_interim_files,
                   mode, brain_handling_classes, tumor_class_mapping, fsVars, runs, trace, fresh, fnVars>>

\* split_tumor_from_brain, lines 222-230: one cut and save; lj = 1 is b = True
SplitCut ==
    /\ pc = "split_cut"
    /\ LET modality == input_files_dir[li]
           file == get_path_file_extension(modality).file_wo_extension
           b == (lj = 1)
           image == cut_area_from_image(image2array(modality), tumor_mask, b)
           path == out_dir \o file \o (IF b THEN <<"-wo", "Tumor">> ELSE <<"-with", "Tumor">>) \o NII_GZ
       IN  /\ files' = WriteFile(files, path, Volume(image))
           /\ Log(<<Event("split_save", path, <<>>, li, lj)>>)
    /\ IF lj = 1 THEN Stay("split_cut", li, 2) /\ UNCHANGED <<tumor_mask, tumor_masks, files_to_remove>>
       ELSE IF li < Len(input_files_dir)
            THEN Stay("split_cut", li + 1, 1) /\ UNCHANGED <<tumor_mask, tumor_masks, files_to_remove>>
            ELSE Goto(ph + 1)
    /\ UNCHANGED <<objVars, dirs, runs, fresh, fnVars>>

\* the "-woTumor"/"-withTumor" file names a segmentation call is given
CutFiles(dir, suffix) ==
    [i \in DOMAIN input_files_dir |->
        dir \o get_path_file_extension(input_files_dir[i]).file_wo_extension \o suffix \o NII_GZ]

\* a segmentation call on files_list: the external tool fails on a missing input
FastStep(files_list, base, n_classes, step) ==
    IF \E i \in DOMAIN files_list : ~Exists(files, files_list[i])
    THEN Raise("ExternalToolError") /\ UNCHANGED <<files, trace>>
    ELSE /\ files' = single_segmentation(files, base, n_classes)
         /\ Log(FastEvents(files_list, base))
         /\ Stay(step, 0, 0)
         /\ UNCHANGED <<tumor_mask, tumor_masks, files_to_remove>>

\* segment_brain_part, lines 240-246
SegmentBrainFast ==
    /\ pc = "brain_fast"
    /\ FastStep(CutFiles(out_dir, <<"-wo", "Tumor">>), out_dir \o <<"wms_Brain">>,
                Len(brain_handling_classes), "brain_rename")
    /\ UNCHANGED <<objVars, dirs, runs, fresh, fnVars>>

\* segment_brain_part, lines 247-248
SegmentBrainRename ==
    /\ pc = "brain_rename"
    /\ RenameStep("brain_rename", out_dir \o <<"wms_Brain">>, brain_handling_classes)
    /\ UNCHANGED <<objVars, dirs, runs, fresh, fnVars>>

\* bias_corrected_approach, lines 266-272
BiasFast ==
    /\ pc = "bias_fast"
    /\ FastStep(CutFiles(out_dir \o <<SEP>>, <<"-with", "Tumor">>),
                out_dir \o <<SEP>> \o <<"tumor_class">>,
                Len(keys(tumor_class_mapping)), "bias_rename")
    /\ UNCHANGED <<objVars, dirs, runs, fresh, fnVars>>

\* bias_corrected_approach, lines 273-274
BiasRename ==
    /\ pc = "bias_rename"
    /\ RenameStep("bias_rename", out_dir \o <<"tumor_class">>, keys(tumor_class_mapping))
    /\ UNCHANGED <<objVars, dirs, runs, fresh, fnVars>>

\* image2mask(self.tumor_seg_dir, value) for every (key, value), lines 284-287
RECURSIVE MasksOf(_, _)
MasksOf(label, codes) ==
    IF codes = <<>> THEN [raised |-> FALSE, masks |-> <<>>]
    ELSE LET r == image2mask(label, Head(codes), None)
         IN  IF r.raised THEN [raised |-> TRUE, masks |-> <<>>]
             ELSE LET rest == MasksOf(label, Tail(codes))
                  IN  [raised |-> rest.raised,
                       masks |-> IF rest.raised THEN <<>> ELSE <<r.mask>> \o rest.masks]

\* tumor_entity_weighted_approach, lines 284-287
TewMasks ==
    /\ pc = "tew_masks"
    /\ LET r == MasksOf(image2array(tumor_seg_dir), values(tumor_class_mapping))
       IN  IF r.raised THEN Raise("ValueError")
           ELSE /\ tumor_masks' = r.masks
                /\ Stay("tew_cut", 1, 1)
                /\ UNCHANGED <<tumor_mask, files_to_remove>>
    /\ UNCHANGED <<objVars, fsVars, runs, trace, fresh, fnVars>>

\* tumor_entity_weighted_approach, lines 289-299: one cut, normalisation and save
TewCut ==
    /\ pc = "tew_cut"
    /\ LET modality == input_files_dir[li]
           key == keys(tumor_class_mapping)[lj]
           image == cut_area_from_image(image2array(modality), tumor_masks[lj], FALSE)
           r == normalise(image)
           path == out_dir \o <<SEP>> \o key \o NII_GZ
       IN  IF r.raised THEN Raise("ValueError") /\ UNCHANGED <<files, trace>>
           ELSE /\ files' = WriteFile(files, path, Volume(r.array))
                /\ Log(<<Event("tew_save", path, <<>>, li, lj)>>)
                /\ IF lj < Len(tumor_masks)
                   THEN Stay("tew_cut", li, lj + 1) /\ UNCHANGED <<tumor_mask, tumor_masks, files_to_remove>>
                   ELSE IF li < Len(input_files_dir)
                        THEN Stay("tew_cut", li + 1, 1) /\ UNCHANGED <<tumor_mask, tumor_masks, files_to_remove>>
                        ELSE Goto(ph + 1)
    /\ UNCHANGED <<objVars, dirs, runs, fresh, fnVars>>

\* run(), lines 331-335
CleanupGlob ==
    /\ pc = "cleanup_glob"
    /\ IF remove_interim_files
       THEN LET found == GlobAll(files, out_dir, CleanupPatterns)
            IN  /\ Log(<<Event("glob", out_dir, <<>>, 0, 0)>>)
                /\ IF found = <<>> THEN Goto(ph + 1)
                   ELSE /\ files_to_remove' = found
                        /\ Stay("cleanup_remove", 0, 0)
                        /\ UNCHANGED <<tumor_mask, tumor_masks>>
       ELSE Goto(ph + 1) /\ UNCHANGED trace
    /\ UNCHANGED <<objVars, fsVars, runs, fresh, fnVars>>

\* run(), lines 336-341: one os.remove; a failure is printed and the loop goes on
CleanupRemove ==
    /\ pc = "cleanup_remove"
    /\ LET file_path == Head(files_to_remove)
       IN  /\ files' = IF Exists(files, file_path) THEN RemoveFile(files, file_path) ELSE files
           /\ Log(<<Event("remove", file_path, <<>>, 0, 0)>>)
    /\ IF Len(files_to_remove) > 1
       THEN /\ files_to_remove' = Tail(files_to_remove)
            /\ Stay("cleanup_remove", 0, 0)
            /\ UNCHANGED <<tumor_mask, tumor_masks>>
       ELSE Goto(ph + 1)
    /\ UNCHANGED <<objVars, dirs, runs, fresh, fnVars>>

\* run() has returned or raised: the caller goes on (the run's history is dropped)
ReturnToCaller ==
    /\ pc \in {"done", "raised"}
    /\ pc' = "idle" /\ err' = "none" /\ trace' = <<>>
    /\ UNCHANGED <<objVars, fsVars, ph, runs, tumor_mask, tumor_masks, li, lj,
                   files_to_remove, fresh, fnVars>>

\* --------------------------------------------------- configuration steps
\* the caller configures the object between runs
Configurable == Resting /\ runs < MaxRuns

\* str_seg.work_dir = w
SetWorkDir ==
    /\ Configurable
    /\ \E w \in WorkDirChoices : work_dir' = w
    /\ UNCHANGED <<out_dir, input_files_dir, tumor_seg_dir, affine, remove_interim_files,
                   mode, brain_handling_classes, tumor_class_mapping, fsVars, runVars, fnVars>>

\* set_input_structure_seg(input_files_dir, tumor_seg_dir)
set_input_structure_seg ==
    /\ Configurable
    /\ \E a \in InputChoices :
          input_files_dir' = a.input_files_dir /\ tumor_seg_dir' = a.tumor_seg_dir
    /\ UNCHANGED <<work_dir, out_dir, affine, remove_interim_files,
                   mode, brain_handling_classes, tumor_class_mapping, fsVars, runVars, fnVars>>

\* str_seg.mode = m
SetMode ==
    /\ Configurable
    /\ \E m \in ModeChoices : mode' = m
    /\ UNCHANGED <<work_dir, out_dir, input_files_dir, tumor_seg_dir, affine, remove_interim_files,
                   brain_handling_classes, tumor_class_mapping, fsVars, runVars, fnVars>>

\* str_seg.remove_interim_files = b
SetRemoveInterimFiles ==
    /\ Configurable
    /\ \E b \in BOOLEAN : remove_interim_files' = b
    /\ UNCHANGED <<work_dir, out_dir, input_files_dir, tumor_seg_dir, affine,
                   mode, brain_handling_classes, tumor_class_mapping, fsVars, runVars, fnVars>>

\* str_seg.brain_handling_classes = c
SetBrainHandlingClasses ==
    /\ Configurable
    /\ \E c \in BrainClassChoices : brain_handling_classes' = c
    /\ UNCHANGED <<work_dir, out_dir, input_files_dir, tumor_seg_dir, affine, remove_interim_files,
                   mode, tumor_class_mapping, fsVars, runVars, fnVars>>

\* str_seg.tumor_class_mapping = tm
SetTumorClassMapping ==
    /\ Configurable
    /\ \E tm \in TumorMappingChoices : tumor_class_mapping' = tm
    /\ UNCHANGED <<work_dir, out_dir, input_files_dir, tumor_seg_dir, affine, remove_interim_files,
                   mode, brain_handling_classes, fsVars, runVars, fnVars>>

Next ==
    \/ SetWorkDir \/ set_input_structure_seg \/ SetMode \/ SetRemoveInterimFiles
    \/ SetBrainHandlingClasses \/ SetTumorClassMapping
    \/ RunValidate \/ RunMkdir
    \/ TumorAgnosticFast \/ TumorAgnosticRename
    \/ SplitMask \/ SplitCut
    \/ SegmentBrainFast \/ SegmentBrainRename
    \/ BiasFast \/ BiasRename
    \/ TewMasks \/ TewCut
    \/ CleanupGlob \/ CleanupRemove
    \/ ReturnToCaller

Spec == Init /\ [][Next]_vars

\* ------------------------------------------- image2mask on enumerated inputs
\* the codes of a label volume (BraTS: 0 background, 1, 2, 4)
LabelCodes == {0, 1, 2, 4}

RECURSIVE SeqsUpTo(_, _)
SeqsUpTo(S, n) ==
    IF n = 0 THEN {<<>>}
    ELSE LET shorter == SeqsUpTo(S, n - 1)
         IN  shorter \cup {<<x>> \o q : x \in S, q \in {r \in shorter : Len(r) = n - 1}}

\* the object as constructed, never run
ObjectIdle == init(None) /\ FsInit /\ RunInit

MaskInit ==
    /\ ObjectIdle
    /\ \E label \in [1..MaxVox -> LabelCodes], compartment \in LabelCodes,
          inner \in SeqsUpTo(LabelCodes, MaxInner) :
          fnArgs = [label |-> label, compartment |-> compartment, inner_compartments |-> inner]
    /\ fnResult = [raised |-> FALSE, mask |-> <<>>]

\* a call of the static method image2mask
CallImage2mask ==
    /\ pc = "idle"
    /\ pc' = "returned"
    /\ fnResult' = image2mask(fnArgs.label, fnArgs.compartment, fnArgs.inner_compartments)
    /\ UNCHANGED <<objVars, fsVars, ph, err, runs, tumor_mask, tumor_masks, li, lj,
                   files_to_remove, trace, fresh, fnArgs>>

SpecMask == MaskInit /\ [][CallImage2mask]_vars

\* ------------------------------- the normalisation on enumerated cut volumes
Intensities == (0 - 1)..MaxIntensity

NormInit ==
    /\ ObjectIdle
    /\ \E array \in [1..MaxVox -> Intensities] : fnArgs = [array |-> array]
    /\ fnResult = [raised |-> FALSE, array |-> <<>>]

\* lines 293-297 applied to a cut volume
CallNormalise ==
    /\ pc = "idle"
    /\ pc' = "returned"
    /\ fnResult' = normalise(fnArgs.array)
    /\ UNCHANGED <<objVars, fsVars, ph, err, runs, tumor_mask, tumor_masks, li, lj,
                   files_to_remove, trace, fresh, fnArgs>>

SpecNorm == NormInit /\ [][CallNormalise]_vars

\* ------------------------------------ run() with removals that can fail
\* the steps of run(), without the caller's configuration steps
NextRun ==
    \/ RunValidate \/ RunMkdir
    \/ TumorAgnosticFast \/ TumorAgnosticRename
    \/ SplitMask \/ SplitCut
    \/ SegmentBrainFast \/ SegmentBrainRename
    \/ BiasFast \/ BiasRename
    \/ TewMasks \/ TewCut
    \/ CleanupGlob \/ CleanupRemove
    \/ ReturnToCaller

\* the object once the caller has set inputs, mode and cleanup flag, with class
\* names drawn from `brains` and `tumors`
Configured(brains, tumors) ==
    /\ work_dir = Cwd \o <<SEP>>
    /\ out_dir = work_dir \o STRUCTURE_SEGMENTATION_PATH
    /\ affine = None
    /\ \E a \in InputChoices :
          input_files_dir = a.input_files_dir /\ tumor_seg_dir = a.tumor_seg_dir
    /\ \E m \in Range(modes) : mode = Str(m, TRUE)
    /\ remove_interim_files \in BOOLEAN
    /\ brain_handling_classes \in brains
    /\ tumor_class_mapping \in tumors

\* removals that fail in one run, at most
MaxFailures == 2

\* the removals that have failed in this run
Failures == Cardinality({i \in DOMAIN trace : trace[i].op = "remove_failed"})

\* os.remove raises and nothing catches it: run() ends with the exception
CleanupRemoveAborts ==
    /\ pc = "cleanup_remove"
    /\ Failures < MaxFailures
    /\ Log(<<Event("remove_failed", Head(files_to_remove), <<>>, 0, 0)>>)
    /\ Raise("OSError")
    /\ UNCHANGED <<objVars, fsVars, runs, fresh, fnVars>>

\* run(), lines 336-341, os.remove raises (the file stays): the handler prints
\* the error and the loop goes on
CleanupRemoveFails ==
    /\ pc = "cleanup_remove"
    /\ Failures < MaxFailures
    /\ Log(<<Event("remove_failed", Head(files_to_remove), <<>>, 0, 0)>>)
    /\ IF Len(files_to_remove) > 1
       THEN /\ files_to_remove' = Tail(files_to_remove)
            /\ Stay("cleanup_remove", 0, 0)
            /\ UNCHANGED <<tumor_mask, tumor_masks>>
       ELSE Goto(ph + 1)
    /\ UNCHANGED <<objVars, fsVars, runs, fresh, fnVars>>

InitCleanupFail ==
    /\ Configured({DefaultBrainClasses}, {DefaultTumorMapping})
    /\ FsInit /\ RunInit /\ FnIdle

SpecCleanupFail == InitCleanupFail /\ [][NextRun \/ CleanupRemoveFails]_vars

\* ---------------------------------- run() with class names of the caller
\* class lists with a name that ends like an interim file: "brain_seg",
\* "activeTumor"
BrainNameChoices == BrainClassChoices \cup {<< <<"csf">>, <<"brain", "_seg">> >>}

TumorNameChoices ==
    TumorMappingChoices \cup
    {<< [key |-> <<"edema">>, value |-> 2], [key |-> <<"active", "Tumor">>, value |-> 1] >>}

InitNames ==
    /\ Configured(BrainNameChoices, TumorNameChoices)
    /\ FsInit /\ RunInit /\ FnIdle

SpecNames == InitNames /\ [][NextRun]_vars

\* ====================================================================
\* Properties of run() (specification Spec)
\* ====================================================================
Count(op) == Cardinality({p \in DOMAIN trace : trace[p].op = op})

ClassFile(name) == NormPath(out_dir \o name \o NII_GZ)

\* the configurations run() has to reject
BadConfiguration ==
    \/ mode.val \notin Range(modes)
    \/ mode.val \in {"bias_corrected", "tumor_entity_weighted"} /\ tumor_seg_dir = None

\* C1: with a mode that is not one of the three modes, or with bias_corrected or
\* tumor_entity_weighted and no tumor label volume, run() raises the configuration
\* error at its checks: it never reaches mkdir or any later step, and a first run
\* leaves no directory and no file.
C1_ValidationBeforeFilesystem ==
    BadConfiguration =>
        \/ pc = "idle"
        \/ /\ pc = "raised" /\ err = "ValueError" /\ trace = <<>>
           /\ (runs = 1 => dirs = {} /\ DOMAIN files = {})

\* C2: once split_tumor_from_brain has written its files, for every modality the
\* "-withTumor" volume equals the input and the "-woTumor" volume is 0 at every
\* voxel whose label is any code of tumor_class_mapping, and the other way round
\* at every other voxel.
C2_SplitPartitionsByAllCodes ==
    pc = "brain_fast" =>
        \A i \in DOMAIN input_files_dir :
            LET v     == image2array(input_files_dir[i])
                label == image2array(tumor_seg_dir)
                file  == get_path_file_extension(input_files_dir[i]).file_wo_extension
                wo    == files[NormPath(out_dir \o file \o <<"-wo", "Tumor">> \o NII_GZ)].data
                with  == files[NormPath(out_dir \o file \o <<"-with", "Tumor">> \o NII_GZ)].data
            IN  \A x \in DOMAIN v :
                    IF \E k \in DOMAIN tumor_class_mapping : label[x] = tumor_class_mapping[k].value
                    THEN with[x] = v[x] /\ wo[x] = 0
                    ELSE wo[x] = v[x] /\ with[x] = 0

\* the renaming loop of the brain segmentation has run through in this run
BrainBase == IF mode.val = "tumor_agnostic" THEN <<>> ELSE <<"wms_Brain">>

LoopDone(base, n) ==
    \A i \in 0..(n - 1) :
        \E p \in DOMAIN trace :
            /\ trace[p].op = "rename" /\ trace[p].m = i
            /\ trace[p].file = NormPath(PveFile(out_dir \o base, i))

HoldsOutput(name, base, i) ==
    /\ ClassFile(name) \in DOMAIN files
    /\ files[ClassFile(name)].kind = "pve"
    /\ files[ClassFile(name)].of = base
    /\ files[ClassFile(name)].idx = i
    /\ files[ClassFile(name)].run = runs

\* C5: in every mode and every run, once the outputs 0..k-1 of a segmentation call
\* have been renamed, the file named after the i-th configured class holds output
\* i-1 of that call, until run() has returned: brain outputs under
\* brain_handling_classes[i], bias_corrected tumor outputs under the i-th key of
\* tumor_class_mapping in insertion order; a second run assigns the same way.
C5_OutputIndexToClassName ==
    /\ (pc # "idle" /\ LoopDone(BrainBase, Len(brain_handling_classes))) =>
          \A i \in DOMAIN brain_handling_classes :
              HoldsOutput(brain_handling_classes[i], BrainBase, i - 1)
    /\ (pc # "idle" /\ LoopDone(<<"tumor_class">>, Len(tumor_class_mapping))) =>
          \A i \in DOMAIN tumor_class_mapping :
              HoldsOutput(tumor_class_mapping[i].key, <<"tumor_class">>, i - 1)

\* C5's case: a second bias_corrected run, over the files of a first, has returned
C5_Witness ==
    /\ pc = "done" /\ runs = 2 /\ ~fresh /\ mode.val = "bias_corrected"
    /\ LoopDone(BrainBase, Len(brain_handling_classes))
    /\ LoopDone(<<"tumor_class">>, Len(tumor_class_mapping))
    /\ HoldsOutput(<<"active">>, <<"tumor_class">>, 1)

SubpathOf(w) == (IF EndsWith(w, <<SEP>>) THEN w ELSE w \o <<SEP>>) \o STRUCTURE_SEGMENTATION_PATH

\* C8: in every run() that passes its checks the output directory is the subpath
\* "structure_segmentation/" of the object's current work directory.
C8_OutDirUnderCurrentWorkDir == pc \notin {"idle", "raised"} => out_dir = SubpathOf(work_dir)

\* the steps of the selected mode that have to be over before cleanup
StrategyComplete ==
    LET n == Len(input_files_dir)
        b == Len(brain_handling_classes)
        t == Len(tumor_class_mapping)
    IN  CASE mode.val = "tumor_agnostic" ->
                Count("fast") = 1 /\ Count("rename") = b
          [] mode.val = "bias_corrected" ->
                Count("split_save") = 2 * n /\ Count("fast") = 2 /\ Count("rename") = b + t
          [] mode.val = "tumor_entity_weighted" ->
                /\ Count("split_save") = 2 * n /\ Count("fast") = 1 /\ Count("rename") = b
                /\ Count("tew_save") = n * t
          [] OTHER -> FALSE

\* C9: in every run, every "-woTumor"/"-withTumor" file a segmentation call reads
\* was written by split_tumor_from_brain earlier in the run and no such file is
\* written after a read; every renamed "_pve_i" file is an output of a segmentation
\* call that returned earlier in the run; and once cleanup has listed the interim
\* files every step of the strategy is over and only deletions follow.
C9_StepOrder ==
    \A p \in DOMAIN trace :
        /\ (trace[p].op = "read" /\ EndsWith(trace[p].file, <<"Tumor">> \o NII_GZ)) =>
              /\ \E q \in 1..(p - 1) :
                    trace[q].op = "split_save" /\ trace[q].file = trace[p].file
              /\ \A q \in DOMAIN trace : trace[q].op = "split_save" => q < p
        /\ trace[p].op = "rename" =>
              \E q \in 1..(p - 1) :
                  /\ trace[q].op = "fast"
                  /\ trace[p].file = NormPath(PveFile(trace[q].file, trace[p].m))
        /\ trace[p].op = "glob" =>
              /\ StrategyComplete
              /\ \A q \in (p + 1)..Len(trace) : trace[q].op = "remove"

C9_Witness ==
    /\ pc = "done" /\ mode.val = "bias_corrected"
    /\ Count("split_save") = 4 /\ Count("read") = 4 /\ Count("rename") = 6
    /\ Count("glob") = 1 /\ Count("remove") > 0

\* C10: no two (modality, class) steps of tumor_entity_weighted_approach write
\* the same file.
C10_TewStepsWriteDistinctFiles ==
    \A p, q \in DOMAIN trace :
        (p # q /\ trace[p].op = "tew_save" /\ trace[q].op = "tew_save") =>
            trace[p].file # trace[q].file

\* ====================================================================
\* Properties of image2mask (specification SpecMask)
\* ====================================================================
Present(label) == Range(label)

\* C3: the mask image2mask returns is 1 exactly at the voxels whose label is the
\* target or one of the extra codes, and 0 elsewhere.
C3_MaskIsUnionOfCodes ==
    (pc = "returned" /\ ~fnResult.raised) =>
        \A v \in DOMAIN fnArgs.label :
            fnResult.mask[v] =
                IF \/ fnArgs.label[v] = fnArgs.compartment
                   \/ fnArgs.label[v] \in Range(fnArgs.inner_compartments)
                THEN 1 ELSE 0

\* C7 as stated: image2mask raises exactly when the target code is absent from
\* the label volume; absent extra codes are tolerated.
C7_RaisesIffTargetAbsent ==
    pc = "returned" =>
        (fnResult.raised <=> fnArgs.compartment \notin Present(fnArgs.label))

\* C7 as amended: image2mask raises exactly when the target code is absent from
\* the label volume, or an extra code is absent from it, equals the target, or
\* occurs twice in the extra list.
C7_RaisesIffTargetOrExtraMissing ==
    pc = "returned" =>
        (fnResult.raised <=>
            \/ fnArgs.compartment \notin Present(fnArgs.label)
            \/ \E i \in DOMAIN fnArgs.inner_compartments :
                  fnArgs.inner_compartments[i] \notin Present(fnArgs.label) \ {fnArgs.compartment}
            \/ \E i, j \in DOMAIN fnArgs.inner_compartments :
                  i # j /\ fnArgs.inner_compartments[i] = fnArgs.inner_compartments[j])

\* C7's case: the target is present, an extra code is absent, the call raised
C7_Witness ==
    /\ pc = "returned" /\ fnResult.raised
    /\ fnArgs.compartment \in Present(fnArgs.label)
    /\ fnArgs.compartment \notin Range(fnArgs.inner_compartments)
    /\ Len(fnArgs.inner_compartments) = 1
    /\ fnArgs.inner_compartments[1] \notin Present(fnArgs.label)

\* ====================================================================
\* Properties of the normalisation (specification SpecNorm)
\* ====================================================================
Foreground(array) == {array[v] : v \in {w \in DOMAIN array : array[w] > 0}}

Finite(x) == x.d > 0

\* x = c, x <= c and c < x for a float x and an integer c
NumIs(x, c) == Finite(x) /\ x.n = c * x.d

NumLe(x, c) == Finite(x) /\ x.n <= c * x.d

NumGt(x, c) == Finite(x) /\ x.n > c * x.d

\* C4: on a cut volume with a strictly positive voxel the result has the
\* shape of the input, every zero voxel is exactly 0 and every strictly positive
\* voxel lies in (1, 2].
C4_ForegroundInHalfOpenInterval ==
    (pc = "returned" /\ Foreground(fnArgs.array) # {}) =>
        /\ ~fnResult.raised
        /\ DOMAIN fnResult.array = DOMAIN fnArgs.array
        /\ \A v \in DOMAIN fnArgs.array :
              /\ fnArgs.array[v] = 0 => NumIs(fnResult.array[v], 0)
              /\ fnArgs.array[v] > 0 =>
                    NumGt(fnResult.array[v], 1) /\ NumLe(fnResult.array[v], 2)

\* ====================================================================
\* Properties of the cleanup (specification SpecCleanupFail)
\* ====================================================================
\* the files of the output directory a cleanup pattern matches
Matched ==
    UNION {GlobSet(files, out_dir, CleanupPatterns[i]) : i \in DOMAIN CleanupPatterns}

FailedOn(p) ==
    \E i \in DOMAIN trace : trace[i].op = "remove_failed" /\ trace[i].file = p

\* C11: a run in which a removal failed has not raised; when it has returned,
\* every file of the output directory that a cleanup pattern matches is one whose
\* removal was tried and failed (every other matched file was tried and is gone);
\* with remove_interim_files false no removal is tried.
C11_CleanupBestEffort ==
    /\ Count("remove_failed") > 0 => pc # "raised"
    /\ (pc = "done" /\ remove_interim_files) => \A p \in Matched : FailedOn(p)
    /\ ~remove_interim_files => Count("remove") = 0 /\ Count("remove_failed") = 0

\* C11's case: a removal failed, a later one was tried and succeeded, run() returned
C11_Witness ==
    /\ pc = "done" /\ remove_interim_files
    /\ \E i, j \in DOMAIN trace :
          /\ i < j /\ trace[i].op = "remove_failed" /\ trace[j].op = "remove"
          /\ ~Exists(files, trace[j].file) /\ Exists(files, trace[i].file)

\* ====================================================================
\* Properties of the cleanup with any class names (specification SpecNames)
\* ====================================================================
\* the run wrote the file of a class at `p`: a renamed segmentation output or a
\* saved tumor class volume
WroteClassFile(i, p) ==
    \/ trace[i].op = "rename" /\ trace[i].to = p
    \/ trace[i].op = "tew_save" /\ trace[i].file = p

\* C12: no file the cleanup removes is a class file the run wrote.
C12_CleanupKeepsClassFiles ==
    \A j \in DOMAIN trace :
        trace[j].op = "remove" =>
            ~ \E i \in 1..(j - 1) : WroteClassFile(i, trace[j].file)

====
